---- MODULE Spec2Model ----
(***************************************************************************)
(* A model of the PPPoE server of obhq/jailbreak-11: the Ethernet payload  *)
(* codec (payload.rs, discovery.rs), the session table (session/list.rs),  *)
(* the discovery engine (discovery.rs) and the session engine              *)
(* (session.rs), with the shared CancellationToken.                        *)
(***************************************************************************)
EXTENDS Integers, Sequences, FiniteSets, TLC

\* The largest value the model's session-id type holds.  The program's type
\* is u16 (65535, list.rs:22-25); the model scales it down so that the id
\* space can be exhausted.
MaxId == 3

\* EthernetPayload::serialize refuses (assert!) anything longer.
MaxFrame == 1500

\* u16::MAX as the tag length field's width.
U16Max == 65535

---------------------------------------------------------------------------
\* Option<T>
None == [ok |-> FALSE]
Some(x) == [ok |-> TRUE, v |-> x]

\* u16::from_le_bytes
FromLe(hi, lo) == lo * 256 + hi

\* u16::from_be_bytes
FromBe(hi, lo) == hi * 256 + lo

\* u16::to_le_bytes
ToLe(n) == <<n % 256, (n \div 256) % 256>>

\* u16::to_be_bytes
ToBe(n) == <<(n \div 256) % 256, n % 256>>

---------------------------------------------------------------------------
\* The codec.

\* A tag decoder that drops 1 to 3 bytes left where a tag header should start.
RECURSIVE TagsDeserializeLenient(_)
TagsDeserializeLenient(data) ==
    IF Len(data) < 4 THEN Some(<<>>)
    ELSE LET ty == FromBe(data[1], data[2])
             length == FromBe(data[3], data[4])
         IN  IF length > Len(data) - 4 THEN None
             ELSE LET value == SubSeq(data, 5, 4 + length)
                      rest == TagsDeserializeLenient(SubSeq(data, 5 + length, Len(data)))
                  IN  IF rest.ok THEN Some(<<<<ty, value>>>> \o rest.v) ELSE None

\* impl Payload for Vec<(u16, Cow<[u8]>)>: deserialize
RECURSIVE TagsDeserialize(_)
TagsDeserialize(data) ==
    IF Len(data) = 0 THEN Some(<<>>)
    ELSE IF Len(data) < 4 THEN None
    ELSE LET ty == FromBe(data[1], data[2])
             length == FromBe(data[3], data[4])
         IN  IF length > Len(data) - 4 THEN None
             ELSE LET value == SubSeq(data, 5, 4 + length)
                      rest == TagsDeserialize(SubSeq(data, 5 + length, Len(data)))
                  IN  IF rest.ok THEN Some(<<<<ty, value>>>> \o rest.v) ELSE None

\* impl Payload for Vec<(u16, Cow<[u8]>)>: serialize.  The unwrap of the
\* length's conversion to u16 panics (None) on a value longer than 65535.
RECURSIVE TagsSerialize(_)
TagsSerialize(tags) ==
    IF tags = <<>> THEN Some(<<>>)
    ELSE LET t == Head(tags)[1]
             v == Head(tags)[2]
             rest == TagsSerialize(Tail(tags))
         IN  IF Len(v) > U16Max THEN None
             ELSE IF rest.ok THEN Some(ToBe(t) \o ToBe(Len(v)) \o v \o rest.v)
             ELSE None

\* impl Payload for Cow<[u8]>
RawDeserialize(data) == Some(data)
RawSerialize(bytes) == Some(bytes)

\* T::deserialize / T::serialize for the two payload types of the program.
PayloadDeserialize(T, data) ==
    IF T = "tags" THEN TagsDeserialize(data) ELSE RawDeserialize(data)
PayloadSerialize(T, payload) ==
    IF T = "tags" THEN TagsSerialize(payload) ELSE RawSerialize(payload)

\* EthernetPayload::new
EthernetPayload(code, session_id, payload) ==
    [code |-> code, session_id |-> session_id, payload |-> payload]

\* A deserialize that wants the declared length to be all that follows the
\* header.
DeserializeStrict(T, data) ==
    IF Len(data) < 6 THEN None
    ELSE LET ver == data[1] % 16
             ty == data[1] \div 16
         IN  IF ver # 1 \/ ty # 1 THEN None
             ELSE LET code == data[2]
                      session_id == FromBe(data[3], data[4])
                      length == FromBe(data[5], data[6])
                  IN  IF length # Len(data) - 6 THEN None
                      ELSE LET p == PayloadDeserialize(T, SubSeq(data, 7, 6 + length))
                           IN  IF p.ok THEN Some(EthernetPayload(code, session_id, p.v))
                               ELSE None

\* A deserialize that takes what is there when the declared length passes the
\* end of the input.
DeserializeLenient(T, data) ==
    IF Len(data) < 6 THEN None
    ELSE LET ver == data[1] % 16
             ty == data[1] \div 16
         IN  IF ver # 1 \/ ty # 1 THEN None
             ELSE LET code == data[2]
                      session_id == FromBe(data[3], data[4])
                      p == PayloadDeserialize(T, SubSeq(data, 7, Len(data)))
                  IN  IF p.ok THEN Some(EthernetPayload(code, session_id, p.v))
                      ELSE None

\* EthernetPayload::deserialize
Deserialize(T, data) ==
    IF Len(data) < 6 THEN None
    ELSE LET ver == data[1] % 16
             ty == data[1] \div 16
         IN  IF ver # 1 \/ ty # 1 THEN None
             ELSE LET code == data[2]
                      session_id == FromBe(data[3], data[4])
                      length == FromBe(data[5], data[6])
                  IN  IF length > Len(data) - 6 THEN None
                      ELSE LET p == PayloadDeserialize(T, SubSeq(data, 7, 6 + length))
                           IN  IF p.ok THEN Some(EthernetPayload(code, session_id, p.v))
                               ELSE None

\* EthernetPayload::serialize; None is a panic (the assert!, or an unwrap).
Serialize(T, p) ==
    LET body == PayloadSerialize(T, p.payload)
    IN  IF ~body.ok THEN None
        ELSE LET buf == <<17, p.code>> \o ToBe(p.session_id) \o <<0, 0>> \o body.v
             IN  IF Len(buf) > MaxFrame THEN None
                 ELSE LET len == ToBe(Len(buf) - 6)
                      IN  Some([buf EXCEPT ![5] = len[1], ![6] = len[2]])

\* Whether v is valid UTF-8, as std::str::from_utf8 decides it.  Every byte that is not a continuation
\* byte starts a character: it is ASCII, or a lead byte of a 2, 3 or 4 byte
\* sequence that is followed by exactly that many continuation bytes, the
\* first of them in the range that excludes overlong forms, surrogates and
\* code points past U+10FFFF.
Cont(b) == b >= 128 /\ b <= 191
Width(b) ==
    IF b < 128 THEN 1
    ELSE IF b >= 194 /\ b <= 223 THEN 2
    ELSE IF b >= 224 /\ b <= 239 THEN 3
    ELSE IF b >= 240 /\ b <= 244 THEN 4
    ELSE 0
Utf8Valid(v) ==
    LET n == Len(v)
    IN  /\ n > 0 => ~Cont(v[1])
        /\ \A i \in 1..n :
              ~Cont(v[i]) =>
                  LET w == Width(v[i])
                  IN  /\ w > 0
                      /\ i + w - 1 <= n
                      /\ \A j \in (i + 1)..(i + w - 1) : Cont(v[j])
                      /\ (i + w <= n => ~Cont(v[i + w]))
                      /\ (v[i] = 224 => v[i + 1] >= 160)
                      /\ (v[i] = 237 => v[i + 1] <= 159)
                      /\ (v[i] = 240 => v[i + 1] >= 144)
                      /\ (v[i] = 244 => v[i + 1] <= 143)

---------------------------------------------------------------------------
\* The session table (session/list.rs).

VARIABLES
    list,       \* Sessions.list: the ids of the active sessions (the map's keys)
    free,       \* Sessions.free: the Vec of pooled ids, the last pushed last
    poisoned,   \* a panic unwound through the guards of Sessions' mutexes
    tasks,      \* the ids whose Session is owned by a spawned, unfinished task
    disc,       \* DiscoveryServer::run: "recv" (at its select!), "done", "panicked"
    sess,       \* SessionServer::run: "recv" (at its select!), "done"
    cancelled,  \* the CancellationToken `running`
    last,       \* the last thing that happened (an Event)
    mutex,      \* the thread that holds the guard of each Mutex of Sessions (0: none)
    thr         \* each thread's position in Sessions::spawn or Sessions::free

vars == <<list, free, poisoned, tasks, disc, sess, cancelled, last, mutex, thr>>

Ids == 1..MaxId

\* The threads that call Sessions::spawn and drop Sessions concurrently: the
\* workers of the runtime.
NThreads == 3
Threads == 1..NThreads

\* A thread outside Sessions: not in a call, the Sessions it owns in held.
Idle(held) == [pc |-> "idle", op |-> "none", id |-> 0, held |-> held]

\* No guard is held and no thread is in a call.
Unlocked ==
    /\ mutex = [m \in {"list", "free"} |-> 0]
    /\ thr = [t \in Threads |-> Idle({})]

\* PopOrDerive taking the pool's first id instead of its last.
PopOrDeriveFirst(l, f) ==
    IF f # <<>> THEN Some(f[1])
    ELSE IF Cardinality(l) + 1 > MaxId THEN None
    ELSE Some(Cardinality(l) + 1)

\* The id Sessions::spawn takes: free.pop(), else list.len() + 1 converted to
\* u16 (None when it does not fit).
PopOrDerive(l, f) ==
    IF f # <<>> THEN Some(f[Len(f)])
    ELSE IF Cardinality(l) + 1 > MaxId THEN None
    ELSE Some(Cardinality(l) + 1)

\* A spawn that reads the pool's last id and leaves it in the pool.
SpawnPeeks(l, f) ==
    LET id == PopOrDerive(l, f)
    IN  IF ~id.ok THEN [res |-> "none", id |-> 0, list |-> l, free |-> f]
        ELSE IF id.v \in l THEN [res |-> "panic", id |-> id.v, list |-> l, free |-> f]
        ELSE [res |-> "some", id |-> id.v, list |-> l \cup {id.v}, free |-> f]

\* Sessions::spawn on the table (l, f).  res is "some", "none", or "panic":
\* assert!(list.insert(id, tx).is_none()) failed, with both guards held.
Spawn(l, f) ==
    LET id == PopOrDerive(l, f)
        f2 == IF f # <<>> THEN SubSeq(f, 1, Len(f) - 1) ELSE f
    IN  IF ~id.ok THEN [res |-> "none", id |-> 0, list |-> l, free |-> f]
        ELSE IF id.v \in l THEN [res |-> "panic", id |-> id.v, list |-> l, free |-> f2]
        ELSE [res |-> "some", id |-> id.v, list |-> l \cup {id.v}, free |-> f2]

\* Sessions::free's test: the id goes to the pool unless it equals list.len().
Pooled(l, id) == id # Cardinality(l)

\* Free without the list.remove.
FreeKeepsActive(l, f, id) ==
    [list |-> l, free |-> IF Pooled(l, id) THEN Append(f, id) ELSE f]

\* Sessions::free on the table (l, f); Slot::drop calls it.
Free(l, f, id) ==
    [list |-> l \ {id}, free |-> IF Pooled(l, id) THEN Append(f, id) ELSE f]

---------------------------------------------------------------------------
\* The discovery engine (discovery.rs).

ServiceName == 257      \* 0x0101
AcName == 258           \* 0x0102
HostUniq == 259         \* 0x0103
PADI == 9               \* 0x09
PADO == 7               \* 0x07
PADR == 25              \* 0x19
PADS == 101             \* 0x65
SessionData == 0        \* 0x00

\* sll_pkttype
Unicast == 0            \* PACKET_HOST
Broadcast == 1          \* PACKET_BROADCAST
Multicast == 2          \* PACKET_MULTICAST

\* "OBHQ Jailbreak 11.00".as_bytes()
AcNameValue ==
    <<79, 66, 72, 81, 32, 74, 97, 105, 108, 98, 114, 101, 97, 107, 32,
      49, 49, 46, 48, 48>>

\* The tag values of the frames the model's peer sends.
Svc == <<115, 118, 99>>             \* "svc"
Uniq == <<222, 173>>                \* 0xDEAD
NotUtf8 == <<255>>
Accented == <<99, 195, 169>>        \* "c" and U+00E9 in two bytes
Fill(n) == [i \in 1..n |-> 97]

\* The longest Service-Name whose PADO still fits 1500 bytes: the PADO adds
\* the header (6), the AC-Name tag (4 + 20) and the tag's own header (4).
FitLen == MaxFrame - 6 - (4 + Len(AcNameValue)) - 4

TagValues == {Svc, Uniq, NotUtf8, Accented, Fill(FitLen), Fill(FitLen + 1)}

\* Utf8Valid, tabulated once for the values above.
Utf8Table == [v \in TagValues |-> Utf8Valid(v)]

\* A from_utf8 that takes any bytes for UTF-8.
from_utf8_unchecked(v) == TRUE

\* std::str::from_utf8(v).is_ok()
from_utf8(v) == IF v \in TagValues THEN Utf8Table[v] ELSE Utf8Valid(v)

\* The tag loop of parse_padi and parse_padr, and the check that follows it.
\* sn and hu are the Options the loop has filled so far.
RECURSIVE ScanTags(_, _, _)
ScanTags(tags, sn, hu) ==
    IF tags = <<>>
    THEN IF sn.ok THEN [res |-> "ok", sn |-> sn.v, hu |-> hu]
         ELSE [res |-> "no_service_name", sn |-> <<>>, hu |-> hu]
    ELSE LET t == Head(tags)[1]
             v == Head(tags)[2]
         IN  IF t = ServiceName
             THEN IF sn.ok THEN [res |-> "multiple_service_name", sn |-> <<>>, hu |-> hu]
                  ELSE IF from_utf8(v) THEN ScanTags(Tail(tags), Some(v), hu)
                  ELSE [res |-> "invalid_service_name", sn |-> <<>>, hu |-> hu]
             ELSE IF t = HostUniq THEN ScanTags(Tail(tags), sn, Some(v))
             ELSE ScanTags(Tail(tags), sn, hu)

\* What handling one frame does: res names the branch taken, reply is the
\* frame a successful send put on the wire, alloc the id spawn returned (0:
\* none), spawned whether tokio::spawn(session.run()) ran, panic whether the
\* handler panicked.
Outcome(res, reply, alloc, spawned, panic, l, f, p) ==
    [res |-> res, reply |-> reply, alloc |-> alloc, spawned |-> spawned,
     panic |-> panic, list |-> l, free |-> f, poisoned |-> p]

Ignored(res, l, f, p) == Outcome(res, <<>>, 0, FALSE, FALSE, l, f, p)

\* A parse_padi without the test of the session id.
parse_padi_any_session(data, sendok, l, f, p) ==
    LET s == ScanTags(data.payload, None, None)
    IN  IF s.res # "ok" THEN Ignored(s.res, l, f, p)
        ELSE LET tags == <<<<AcName, AcNameValue>>, <<ServiceName, s.sn>>>>
                         \o (IF s.hu.ok THEN <<<<HostUniq, s.hu.v>>>> ELSE <<>>)
                 pado == Serialize("tags", EthernetPayload(PADO, 0, tags))
             IN  IF ~pado.ok
                 THEN Outcome("serialize_panic", <<>>, 0, FALSE, TRUE, l, f, p)
                 ELSE IF ~sendok THEN Ignored("send_failed", l, f, p)
                 ELSE Outcome("pado", pado.v, 0, FALSE, FALSE, l, f, p)

\* DiscoveryServer::parse_padi
parse_padi(data, sendok, l, f, p) ==
    IF data.session_id # 0 THEN Ignored("session_id", l, f, p)
    ELSE LET s == ScanTags(data.payload, None, None)
         IN  IF s.res # "ok" THEN Ignored(s.res, l, f, p)
             ELSE LET tags == <<<<AcName, AcNameValue>>, <<ServiceName, s.sn>>>>
                              \o (IF s.hu.ok THEN <<<<HostUniq, s.hu.v>>>> ELSE <<>>)
                      pado == Serialize("tags", EthernetPayload(PADO, 0, tags))
                  IN  IF ~pado.ok
                      THEN Outcome("serialize_panic", <<>>, 0, FALSE, TRUE, l, f, p)
                      ELSE IF ~sendok THEN Ignored("send_failed", l, f, p)
                      ELSE Outcome("pado", pado.v, 0, FALSE, FALSE, l, f, p)

\* DiscoveryServer::parse_padr.  A Session that goes out of scope (the early
\* return, an unwinding panic) drops its Slot, which frees the id.
parse_padr(data, sendok, l, f, p) ==
    IF data.session_id # 0 THEN Ignored("session_id", l, f, p)
    ELSE LET s == ScanTags(data.payload, None, None)
         IN  IF s.res # "ok" THEN Ignored(s.res, l, f, p)
             ELSE IF p THEN Outcome("lock_panic", <<>>, 0, FALSE, TRUE, l, f, p)
             ELSE LET session == Spawn(l, f)
                  IN  IF session.res = "none"
                      THEN Outcome("todo_panic", <<>>, 0, FALSE, TRUE, l, f, p)
                      ELSE IF session.res = "panic"
                      THEN Outcome("assert_panic", <<>>, 0, FALSE, TRUE,
                                   session.list, session.free, TRUE)
                      ELSE LET tags == <<<<ServiceName, s.sn>>>>
                                       \o (IF s.hu.ok THEN <<<<HostUniq, s.hu.v>>>> ELSE <<>>)
                               pads == Serialize("tags", EthernetPayload(PADS, session.id, tags))
                               dropped == Free(session.list, session.free, session.id)
                           IN  IF ~pads.ok
                               THEN Outcome("serialize_panic", <<>>, session.id, FALSE, TRUE,
                                            dropped.list, dropped.free, p)
                               ELSE IF ~sendok
                               THEN Outcome("send_failed", <<>>, session.id, FALSE, FALSE,
                                            dropped.list, dropped.free, p)
                               ELSE Outcome("pads", pads.v, session.id, TRUE, FALSE,
                                            session.list, session.free, p)

\* A loop body that dispatches on the code alone.
DiscHandleAnyType(ty, raw, sendok, l, f, p) ==
    LET data == Deserialize("tags", raw)
    IN  IF ~data.ok THEN Ignored("undecodable", l, f, p)
        ELSE IF data.v.code = PADR THEN parse_padr(data.v, sendok, l, f, p)
        ELSE IF data.v.code = PADI THEN parse_padi(data.v, sendok, l, f, p)
        ELSE Ignored("unicast_code", l, f, p)

\* The body of DiscoveryServer::run's loop after a successful recv: the frame
\* raw arrived with sll_pkttype ty.
DiscHandle(ty, raw, sendok, l, f, p) ==
    LET data == Deserialize("tags", raw)
    IN  IF ~data.ok THEN Ignored("undecodable", l, f, p)
        ELSE IF ty = Unicast
             THEN IF data.v.code = PADR THEN parse_padr(data.v, sendok, l, f, p)
                  ELSE Ignored("unicast_code", l, f, p)
        ELSE IF ty = Broadcast
             THEN IF data.v.code = PADI THEN parse_padi(data.v, sendok, l, f, p)
                  ELSE Ignored("broadcast_code", l, f, p)
        ELSE Ignored("pkttype", l, f, p)

---------------------------------------------------------------------------
\* The session engine (session.rs).

\* The body of SessionServer::run's loop after a successful recv.
SessHandle(ty, raw) ==
    IF ty # Unicast THEN "pkttype"
    ELSE LET data == Deserialize("raw", raw)
         IN  IF ~data.ok THEN "undecodable"
             ELSE IF data.v.code # SessionData THEN "code"
             ELSE "accepted"

---------------------------------------------------------------------------
\* The frames the peer sends.  A frame is at most 1500 bytes: recv fills
\* buf = [0; 1500].

Wire(code, session_id, tags) ==
    Serialize("tags", EthernetPayload(code, session_id, tags)).v

Malformed ==
    { <<17, PADI, 0>>,                                   \* shorter than the header
      <<33, PADI, 0, 0, 0, 0>>,                          \* type 2, version 1
      <<17, PADR, 0, 0, 0, 9, 1, 1, 0, 0>>,              \* length past the end
      <<17, PADR, 0, 0, 0, 6, 1, 1, 0, 3, 115, 118>>,    \* tag past the end
      <<17, PADI, 0, 0, 0, 2, 1, 1>> }                   \* 2 bytes of a tag header

PadiFrames ==
    { Wire(PADI, 0, tags) : tags \in
        { <<<<ServiceName, Svc>>>>,
          <<<<ServiceName, Accented>>, <<HostUniq, Uniq>>>>,
          <<<<HostUniq, Uniq>>>>,
          <<<<ServiceName, Svc>>, <<HostUniq, Uniq>>, <<ServiceName, Svc>>>>,
          <<<<ServiceName, NotUtf8>>>>,
          <<<<ServiceName, Fill(FitLen)>>>>,
          <<<<ServiceName, Fill(FitLen + 1)>>>> } }
    \cup { Wire(PADI, 1, <<<<ServiceName, Svc>>>>) }

PadrFrames ==
    { Wire(PADR, 0, tags) : tags \in
        { <<<<ServiceName, Svc>>>>,
          <<<<ServiceName, Svc>>, <<HostUniq, Uniq>>>>,
          <<<<HostUniq, Uniq>>>>,
          <<<<ServiceName, Svc>>, <<ServiceName, Accented>>>>,
          <<<<ServiceName, NotUtf8>>>>,
          <<<<ServiceName, Fill(FitLen + 1)>>>> } }
    \cup { Wire(PADR, 1, <<<<ServiceName, Svc>>>>) }

\* What the discovery socket receives: (sll_pkttype, frame).
DiscInputs ==
    { <<Broadcast, raw>> : raw \in PadiFrames }
    \cup { <<Unicast, raw>> : raw \in PadrFrames }
    \cup { <<Broadcast, raw>> : raw \in Malformed }
    \cup { <<Unicast, Wire(PADI, 0, <<<<ServiceName, Svc>>>>)>>,
           <<Broadcast, Wire(PADR, 0, <<<<ServiceName, Svc>>>>)>>,
           <<Multicast, Wire(PADI, 0, <<<<ServiceName, Svc>>>>)>>,
           <<Unicast, Wire(PADO, 0, <<<<ServiceName, Svc>>>>)>> }

\* What the session socket receives: (sll_pkttype, frame).
SessInputs ==
    { <<Unicast, <<17, SessionData, 0, 1, 0, 2, 192, 33>>>>,    \* session 1, 2 bytes
      <<Unicast, <<17, 1, 0, 1, 0, 0>>>>,                       \* code 0x01
      <<Unicast, <<17, SessionData, 0, 1, 0, 9, 192>>>>,        \* length past the end
      <<Unicast, <<17, SessionData>>>>,                         \* shorter than the header
      <<Broadcast, <<17, SessionData, 0, 1, 0, 2, 192, 33>>>> }

\* An entry of what the program has done: the engine (or "task", "extern"),
\* the frame it handled, the branch taken, the reply a successful send put on
\* the wire, the session id involved (0: none) and whether a session task was
\* spawned.
Event(eng, ty, raw, res, reply, id, spawned) ==
    [eng |-> eng, ty |-> ty, raw |-> raw, res |-> res, reply |-> reply,
     id |-> id, spawned |-> spawned]

Plain(eng, res, id) == Event(eng, 0, <<>>, res, <<>>, id, FALSE)

---------------------------------------------------------------------------
\* The state machine.

Init ==
    /\ list = {}
    /\ free = <<>>
    /\ poisoned = FALSE
    /\ tasks = {}
    /\ disc = "recv"
    /\ sess = "recv"
    /\ cancelled = FALSE
    /\ last = Plain("none", "none", 0)
    /\ Unlocked

\* A DiscoveryServer::run that remembers the peer's PADI: it passes a unicast
\* frame to the loop body only right after it has sent a PADO.
DiscRecvAfterPadi(ty, raw, sendok) ==
    /\ disc = "recv"
    /\ LET h == IF ty = Unicast /\ last.res # "pado"
                THEN Ignored("no_padi", list, free, poisoned)
                ELSE DiscHandle(ty, raw, sendok, list, free, poisoned)
       IN  /\ list' = h.list
           /\ free' = h.free
           /\ poisoned' = h.poisoned
           /\ tasks' = IF h.spawned THEN tasks \cup {h.alloc} ELSE tasks
           /\ disc' = IF h.panic THEN "panicked" ELSE "recv"
           /\ last' = Event("disc", ty, raw, h.res, h.reply, h.alloc, h.spawned)
    /\ UNCHANGED <<sess, cancelled, mutex, thr>>

\* DiscoveryServer::run: recv returned Ok and the loop body ran.  select!
\* polls its branches in a random order, so a ready frame may win over a
\* cancelled token.
DiscRecv(ty, raw, sendok) ==
    /\ disc = "recv"
    /\ LET h == DiscHandle(ty, raw, sendok, list, free, poisoned)
       IN  /\ list' = h.list
           /\ free' = h.free
           /\ poisoned' = h.poisoned
           /\ tasks' = IF h.spawned THEN tasks \cup {h.alloc} ELSE tasks
           /\ disc' = IF h.panic THEN "panicked" ELSE "recv"
           /\ last' = Event("disc", ty, raw, h.res, h.reply, h.alloc, h.spawned)
    /\ UNCHANGED <<sess, cancelled, mutex, thr>>

\* DiscoveryServer::run: recv returned Err.
DiscRecvErr ==
    /\ disc = "recv"
    /\ cancelled' = TRUE
    /\ disc' = "done"
    /\ last' = Plain("disc", "recv_error", 0)
    /\ UNCHANGED <<list, free, poisoned, tasks, sess, mutex, thr>>

\* A select! without the running.cancelled() branch.
DiscIgnoresToken ==
    /\ FALSE
    /\ UNCHANGED vars

\* DiscoveryServer::run: running.cancelled() completed, break.
DiscCancelled ==
    /\ disc = "recv"
    /\ cancelled
    /\ disc' = "done"
    /\ last' = Plain("disc", "cancelled", 0)
    /\ UNCHANGED <<list, free, poisoned, tasks, sess, cancelled, mutex, thr>>

\* A spawned Session::run finishes (its body is empty) or the task is dropped:
\* the Session drops, Slot::drop calls Sessions::free, whose lock().unwrap()
\* panics on a poisoned mutex before it touches the table.
TaskEnd(id) ==
    /\ id \in tasks
    /\ tasks' = tasks \ {id}
    /\ IF poisoned
       THEN /\ UNCHANGED <<list, free>>
            /\ last' = Plain("task", "lock_panic", id)
       ELSE LET r == Free(list, free, id)
            IN  /\ list' = r.list
                /\ free' = r.free
                /\ last' = Plain("task", "freed", id)
    /\ UNCHANGED <<poisoned, disc, sess, cancelled, mutex, thr>>

\* A SessionServer::run that returns on a frame it does not accept.
SessRecvFatal(ty, raw) ==
    /\ sess = "recv"
    /\ sess' = IF SessHandle(ty, raw) = "accepted" THEN "recv" ELSE "done"
    /\ last' = Event("sess", ty, raw, SessHandle(ty, raw), <<>>, 0, FALSE)
    /\ UNCHANGED <<list, free, poisoned, tasks, disc, cancelled, mutex, thr>>

\* SessionServer::run: recv returned Ok and the loop body ran.
SessRecv(ty, raw) ==
    /\ sess = "recv"
    /\ last' = Event("sess", ty, raw, SessHandle(ty, raw), <<>>, 0, FALSE)
    /\ UNCHANGED <<list, free, poisoned, tasks, disc, sess, cancelled, mutex, thr>>

\* SessionServer::run: recv returned Err.
SessRecvErr ==
    /\ sess = "recv"
    /\ cancelled' = TRUE
    /\ sess' = "done"
    /\ last' = Plain("sess", "recv_error", 0)
    /\ UNCHANGED <<list, free, poisoned, tasks, disc, mutex, thr>>

\* SessionServer::run: running.cancelled() completed, break.
SessCancelled ==
    /\ sess = "recv"
    /\ cancelled
    /\ sess' = "done"
    /\ last' = Plain("sess", "cancelled", 0)
    /\ UNCHANGED <<list, free, poisoned, tasks, disc, cancelled, mutex, thr>>

\* The process is asked to stop: the token's owner cancels it.
ExternalCancel ==
    /\ ~cancelled
    /\ cancelled' = TRUE
    /\ last' = Plain("extern", "cancel", 0)
    /\ UNCHANGED <<list, free, poisoned, tasks, disc, sess, mutex, thr>>

Next ==
    \/ \E in \in DiscInputs, sendok \in BOOLEAN : DiscRecv(in[1], in[2], sendok)
    \/ DiscRecvErr
    \/ DiscCancelled
    \/ \E id \in Ids : TaskEnd(id)
    \/ \E in \in SessInputs : SessRecv(in[1], in[2])
    \/ SessRecvErr
    \/ SessCancelled
    \/ ExternalCancel

Spec == Init /\ [][Next]_vars

\* The runtime polls every task that can run, and a select! whose token is
\* cancelled takes that branch sooner or later.
FairSpec ==
    /\ Spec
    /\ WF_vars(DiscCancelled)
    /\ WF_vars(SessCancelled)
    /\ \A id \in Ids : WF_vars(TaskEnd(id))

---------------------------------------------------------------------------
\* The codec on its own: a caller hands EthernetPayload::serialize a value, or
\* a socket hands EthernetPayload::deserialize the bytes it received, and
\* `last` holds the call and what it returned.  The engines stay as Init
\* leaves them.

\* The longest payload the peer's bytes are enumerated to.
MaxBody == 7

\* The byte values the enumerated payloads are made of: as the bytes of a tag
\* header they give the types and the lengths 0, 1, 2 and, in the high byte,
\* lengths that pass the end.
BodyBytes == {0, 1, 2}

\* Every byte sequence of length n over BodyBytes.
SeqsOfLen(n) == [1..n -> BodyBytes]
Bodies == UNION {SeqsOfLen(n) : n \in 0..MaxBody}

\* A frame as its bytes: byte 0, the code, the session id, the length field
\* and what follows the header.
Frame(b0, code, session_id, length, body) ==
    <<b0, code>> \o ToBe(session_id) \o ToBe(length) \o body

\* The lengths a peer declares for a body: the body's, one less (a byte
\* follows the payload) and one more (the payload passes the end).
Declared(body) == {Len(body) - 1, Len(body), Len(body) + 1} \ {-1}

\* The bytes the codec is given to decode.
CodecFrames ==
    \* every short payload, with the three declared lengths
    UNION { { Frame(17, PADI, 0, n, body) : n \in Declared(body) } : body \in Bodies }
    \* two tags and what may follow them: nothing, 1 to 3 bytes, a tag that
    \* passes the end, a third tag
    \cup { Frame(17, PADR, 0, 13 + Len(more),
                 ToBe(ServiceName) \o ToBe(3) \o Svc \o ToBe(HostUniq) \o ToBe(2) \o Uniq \o more) :
              more \in {<<>>, <<1>>, <<1, 3>>, <<1, 3, 0>>, <<1, 3, 0, 1>>, <<1, 3, 0, 0>>} }
    \* another byte 0: a nibble off by one, the nibbles swapped, none
    \cup { Frame(b0, PADR, 1, 4, <<1, 1, 0, 0>>) : b0 \in {0, 1, 16, 18, 33, 49, 255} }
    \* less than a header
    \cup { SubSeq(Frame(17, PADR, 1, 0, <<>>), 1, n) : n \in 0..5 }
    \* a length that needs both of its bytes: exact, with bytes after it, past the end
    \cup { Frame(17, SessionData, 258, n, ToBe(ServiceName) \o ToBe(MaxFrame - 10) \o Fill(MaxFrame - 10)) :
              n \in {MaxFrame - 6, MaxFrame - 5, 256, 0} }
    \cup { Frame(17, SessionData, 258, 300, ToBe(HostUniq) \o ToBe(296) \o Fill(297)) }

\* The tag lists a caller builds.
CodecTag == { <<ServiceName, <<>>>>, <<ServiceName, Svc>>, <<HostUniq, Uniq>>,
              <<0, <<0, 0, 0, 0>>>>, <<U16Max, <<1, 1, 0, 1, 255>>>> }
CodecTagLists ==
    {<<>>}
    \cup { <<a>> : a \in CodecTag }
    \cup { <<a, b>> : a \in CodecTag, b \in CodecTag }
    \cup { <<<<ServiceName, Fill(300)>>>>,
           <<<<AcName, AcNameValue>>, <<ServiceName, Svc>>, <<HostUniq, Uniq>>>>,
           <<<<ServiceName, Fill(MaxFrame - 10)>>>>,                \* 1500 bytes
           <<<<ServiceName, Fill(MaxFrame - 9)>>>>,                 \* 1501 bytes
           <<<<ServiceName, Fill(743)>>, <<HostUniq, Fill(743)>>>>, \* 1500 bytes
           <<<<ServiceName, Fill(743)>>, <<HostUniq, Fill(744)>>>> }

\* The values the codec is given to encode: the payload type and the value.
CodecValues ==
    { <<"tags", EthernetPayload(code, session_id, tags)>> :
          code \in {PADO, PADS, 255},
          session_id \in {0, 1, 258, U16Max},
          tags \in CodecTagLists }
    \cup { <<"raw", EthernetPayload(SessionData, session_id, bytes)>> :
              session_id \in {1, 258},
              bytes \in {<<>>, <<192, 33>>, Fill(MaxFrame - 6), Fill(MaxFrame - 5)} }

\* A call of the codec: op is "new" (a value to encode), "recv" (bytes to
\* decode), "serialize" or "deserialize" (the call made); T is the payload
\* type, x the value encoded, data the bytes, out the call's result (None from
\* serialize is its panic) and from the op before.
Codec(op, T, x, data, out, from) ==
    [eng |-> "codec", op |-> op, T |-> T, x |-> x, data |-> data, out |-> out,
     from |-> from]

CodecInit ==
    /\ list = {}
    /\ free = <<>>
    /\ poisoned = FALSE
    /\ tasks = {}
    /\ disc = "recv"
    /\ sess = "recv"
    /\ cancelled = FALSE
    /\ Unlocked
    /\ \/ \E v \in CodecValues : last = Codec("new", v[1], v[2], <<>>, None, "none")
       \/ \E T \in {"tags", "raw"}, data \in CodecFrames :
             last = Codec("recv", T, None, data, None, "none")

\* EthernetPayload::serialize on the value the caller built.
CodecSerialize ==
    /\ last.op = "new"
    /\ LET out == Serialize(last.T, last.x)
       IN  last' = Codec("serialize", last.T, last.x,
                         IF out.ok THEN out.v ELSE <<>>, out, last.op)
    /\ UNCHANGED <<list, free, poisoned, tasks, disc, sess, cancelled, mutex, thr>>

\* EthernetPayload::deserialize on received bytes, or on the bytes serialize
\* returned.
CodecDeserialize ==
    /\ \/ last.op = "recv"
       \/ last.op = "serialize" /\ last.out.ok
    /\ last' = Codec("deserialize", last.T, last.x, last.data,
                     Deserialize(last.T, last.data), last.op)
    /\ UNCHANGED <<list, free, poisoned, tasks, disc, sess, cancelled, mutex, thr>>

CodecNext ==
    \/ CodecSerialize
    \/ CodecDeserialize

CodecSpec == CodecInit /\ [][CodecNext]_vars

---------------------------------------------------------------------------
\* The session table under concurrent callers: every thread calls
\* Sessions::spawn and drops the Sessions it owns, and a call is a sequence of
\* steps that other threads' steps interleave with.  The engines stay as Init
\* leaves them.

\* Sessions::spawn takes its guards in this order (list.rs:18-19).
SpawnOrder == <<"list", "free">>

\* Sessions::free taking the guard of free first.
FreeOrderReversed == <<"free", "list">>

\* Sessions::free takes its guards in this order (list.rs:43-44).
FreeOrder == <<"list", "free">>

Order(op) == IF op = "spawn" THEN SpawnOrder ELSE FreeOrder

\* A Mutex that lets every caller in.
AvailableAlways(m) == TRUE

\* Mutex::lock returns once no other guard of the mutex is alive.
Available(m) == mutex[m] = 0

\* Every guard of thread t is dropped (it returns or unwinds).
Released(t) == [m \in {"list", "free"} |-> IF mutex[m] = t THEN 0 ELSE mutex[m]]

\* A thread calls Sessions::spawn (parse_padr).
CallSpawn(t) ==
    /\ thr[t].pc = "idle"
    /\ thr' = [thr EXCEPT ![t].pc = "lock1", ![t].op = "spawn"]
    /\ UNCHANGED <<list, free, poisoned, tasks, disc, sess, cancelled, last, mutex>>

\* A thread drops a Session it owns: Slot::drop calls Sessions::free(id).
CallFree(t, id) ==
    /\ thr[t].pc = "idle"
    /\ id \in thr[t].held
    /\ thr' = [thr EXCEPT ![t] = [pc |-> "lock1", op |-> "free", id |-> id,
                                  held |-> thr[t].held \ {id}]]
    /\ UNCHANGED <<list, free, poisoned, tasks, disc, sess, cancelled, last, mutex>>

\* self.list.lock().unwrap() and self.free.lock().unwrap(): the thread waits
\* for the mutex; on a poisoned one unwrap panics and the thread unwinds.
Lock(t) ==
    /\ thr[t].pc \in {"lock1", "lock2"}
    /\ LET k == IF thr[t].pc = "lock1" THEN 1 ELSE 2
           m == Order(thr[t].op)[k]
       IN  /\ Available(m)
           /\ IF poisoned
              THEN /\ mutex' = Released(t)
                   /\ thr' = [thr EXCEPT ![t].pc = "panicked"]
              ELSE /\ mutex' = [mutex EXCEPT ![m] = t]
                   /\ thr' = [thr EXCEPT ![t].pc =
                                 IF k = 1 THEN "lock2"
                                 ELSE IF thr[t].op = "spawn" THEN "choose"
                                 ELSE "push"]
    /\ UNCHANGED <<list, free, poisoned, tasks, disc, sess, cancelled, last>>

\* Sessions::spawn: free.pop(), else list.len() + 1; `?` returns None.
SpawnChoose(t) ==
    /\ thr[t].pc = "choose"
    /\ LET id == PopOrDerive(list, free)
       IN  /\ free' = IF free # <<>> THEN SubSeq(free, 1, Len(free) - 1) ELSE free
           /\ thr' = [thr EXCEPT ![t].id = IF id.ok THEN id.v ELSE 0,
                                 ![t].pc = IF id.ok THEN "insert" ELSE "unlock2"]
    /\ UNCHANGED <<list, poisoned, tasks, disc, sess, cancelled, last, mutex>>

\* Sessions::spawn: assert!(list.insert(id, tx).is_none()); a failed assertion
\* unwinds through both guards and poisons the mutexes.
SpawnInsert(t) ==
    /\ thr[t].pc = "insert"
    /\ IF thr[t].id \in list
       THEN /\ poisoned' = TRUE
            /\ mutex' = Released(t)
            /\ thr' = [thr EXCEPT ![t].pc = "panicked"]
            /\ UNCHANGED list
       ELSE /\ list' = list \cup {thr[t].id}
            /\ thr' = [thr EXCEPT ![t].pc = "unlock2"]
            /\ UNCHANGED <<poisoned, mutex>>
    /\ UNCHANGED <<free, tasks, disc, sess, cancelled, last>>

\* Sessions::free: if id != list.len() { free.push(id) }
FreePush(t) ==
    /\ thr[t].pc = "push"
    /\ free' = IF Pooled(list, thr[t].id) THEN Append(free, thr[t].id) ELSE free
    /\ thr' = [thr EXCEPT ![t].pc = "remove"]
    /\ UNCHANGED <<list, poisoned, tasks, disc, sess, cancelled, last, mutex>>

\* Sessions::free: list.remove(&id).unwrap()
FreeRemove(t) ==
    /\ thr[t].pc = "remove"
    /\ IF thr[t].id \notin list
       THEN /\ poisoned' = TRUE
            /\ mutex' = Released(t)
            /\ thr' = [thr EXCEPT ![t].pc = "panicked"]
            /\ UNCHANGED list
       ELSE /\ list' = list \ {thr[t].id}
            /\ thr' = [thr EXCEPT ![t].pc = "unlock2"]
            /\ UNCHANGED <<poisoned, mutex>>
    /\ UNCHANGED <<free, tasks, disc, sess, cancelled, last>>

\* The guards drop at the end of the function, the one taken last first; then
\* the call returns (spawn with the Session of the id it inserted).
Unlock(t) ==
    /\ thr[t].pc \in {"unlock2", "unlock1"}
    /\ LET k == IF thr[t].pc = "unlock2" THEN 2 ELSE 1
           m == Order(thr[t].op)[k]
           got == IF thr[t].op = "spawn" /\ thr[t].id # 0 THEN {thr[t].id} ELSE {}
       IN  /\ mutex' = [mutex EXCEPT ![m] = 0]
           /\ thr' = [thr EXCEPT ![t] =
                         IF k = 2 THEN [thr[t] EXCEPT !.pc = "unlock1"]
                         ELSE Idle(thr[t].held \cup got)]
    /\ UNCHANGED <<list, free, poisoned, tasks, disc, sess, cancelled, last>>

LockNext ==
    \E t \in Threads :
        \/ CallSpawn(t)
        \/ \E id \in Ids : CallFree(t, id)
        \/ Lock(t)
        \/ SpawnChoose(t)
        \/ SpawnInsert(t)
        \/ FreePush(t)
        \/ FreeRemove(t)
        \/ Unlock(t)

LockSpec == Init /\ [][LockNext]_vars

---------------------------------------------------------------------------
\* The claims.

Range(f) == {f[i] : i \in DOMAIN f}
Min(S) == CHOOSE m \in S : \A x \in S : m <= x

\* Sessions::spawn can be called: the discovery engine is serving and no
\* panic has poisoned the table's mutexes.
CanSpawn == disc = "recv" /\ ~poisoned

\* C1: after any interleaving of allocations and releases, the id that
\* Sessions::spawn takes (popped from the pool, or the active count + 1) is
\* not in the active mapping, and the assertion on list.insert never fails.
C1_SpawnIdNotActive ==
    /\ last.res # "assert_panic"
    /\ CanSpawn =>
          LET id == PopOrDerive(list, free)
          IN  id.ok => id.v \notin list

\* C2: releasing an active id that is not the highest active id puts it in
\* the free pool, from where a later allocation takes it.
C2_ReleasedBelowHighestIsPooled ==
    [][\A id \in Ids :
          (/\ last'.eng = "task" /\ last'.res = "freed" /\ last'.id = id
           /\ \E h \in list : h > id)
          => id \in Range(free')]_vars

\* C3: a release adds the id to the free pool only if a strictly higher id
\* is active at that moment; the highest active id is never pooled.
C3_PooledOnlyBelowHighest ==
    [][\A id \in Ids :
          (/\ last'.eng = "task" /\ last'.res = "freed" /\ last'.id = id
           /\ Len(free') > Len(free))
          => \E h \in list : h > id]_vars

\* C4 as claimed: the id Sessions::spawn returns is the smallest id of the
\* free pool when the pool holds more than one, and always the smallest id
\* that is not active.
C4_ReturnsLowestId ==
    [][(last'.eng = "disc" /\ last'.id # 0)
          => /\ last'.id = Min(Ids \ list)
             /\ Len(free) > 1 => last'.id = Min(Range(free))]_vars

\* C4 as amended: whenever Sessions::spawn returns an id, it is the id pushed
\* last on the free pool when the pool is not empty, and the active count + 1
\* otherwise.
C4_ReturnsLastPooledOrNext ==
    [][(last'.eng = "disc" /\ last'.id # 0)
          => /\ free # <<>> => last'.id = free[Len(free)]
             /\ free = <<>> => last'.id = Cardinality(list) + 1]_vars

\* C4's case: an allocation took an id from a pool that held a smaller one.
C4_Witness ==
    /\ last.eng = "disc" /\ last.res = "pads"
    /\ \E i \in DOMAIN free : free[i] < last.id

\* C5: Sessions::spawn returns none only when the pool is empty and the
\* active count + 1 does not fit the id type; in every other state it returns
\* an id, which lies in 1..MaxId.
C5_NoneOnlyWhenExhausted ==
    CanSpawn =>
        LET r == Spawn(list, free)
            exhausted == free = <<>> /\ Cardinality(list) = MaxId
        IN  /\ r.res = "none" <=> exhausted
            /\ ~exhausted => r.res = "some" /\ r.id \in Ids

\* C6: every Session that Sessions::spawn returned is released when its
\* owner's scope ends, so an id that no live task owns is not active.
C6_ActiveIdHasLiveOwner == list \subseteq tasks

\* The frame reply is a PADS that carries session id.
IsPads(reply, id) ==
    LET d == Deserialize("tags", reply)
    IN  d.ok /\ d.v.code = PADS /\ d.v.session_id = id

\* C7: a session task is spawned only in a step that has sent its PADS; when
\* the send of the PADS fails no task is spawned and the allocated id is out
\* of the active mapping when the step ends.
C7_SendThenSpawn ==
    [][/\ \A id \in tasks' \ tasks :
             /\ last'.eng = "disc" /\ last'.res = "pads" /\ last'.id = id
             /\ IsPads(last'.reply, id)
       /\ (last'.eng = "disc" /\ last'.res = "send_failed" /\ last'.id # 0)
             => /\ ~last'.spawned
                /\ tasks' = tasks
                /\ last'.id \notin list']_vars

\* C7's case: the send of a PADS failed while other sessions were active.
C7_Witness ==
    /\ last.eng = "disc" /\ last.res = "send_failed" /\ last.id # 0
    /\ list # {}

\* C8: the discovery engine leaves its loop only on a receive error or on
\* the shutdown signal, which both leave the token cancelled; no frame and no
\* failed send makes it stop.
C8_StopsOnlyOnRecvErrorOrShutdown ==
    disc # "recv" => disc = "done" /\ cancelled

\* The frame raw, received with pkttype ty, is a PADR that passes validation.
ValidPadr(ty, raw) ==
    /\ ty = Unicast
    /\ LET d == Deserialize("tags", raw)
       IN  /\ d.ok
           /\ d.v.code = PADR
           /\ d.v.session_id = 0
           /\ ScanTags(d.v.payload, None, None).res = "ok"

\* C9: a valid PADR that arrives while Sessions::spawn returns none is
\* dropped: nothing is sent, no task is spawned, the table is unchanged and
\* the engine stays in its loop.
C9_ExhaustedPadrDropped ==
    [][(/\ CanSpawn
        /\ Spawn(list, free).res = "none"
        /\ last'.eng = "disc"
        /\ ValidPadr(last'.ty, last'.raw))
          => /\ last'.reply = <<>>
             /\ ~last'.spawned
             /\ list' = list /\ free' = free /\ tasks' = tasks
             /\ disc' = "recv"]_vars

\* C10: an engine that hits a receive error leaves the token cancelled, and
\* once the token is cancelled (by an engine or from outside) every engine
\* leaves its loop.
C10_ShutdownStopsEveryEngine ==
    /\ [](last.res = "recv_error" => cancelled)
    /\ cancelled ~> (disc # "recv" /\ sess # "recv")

\* C10's case: after one engine's receive error, the other left its loop on
\* the cancelled token.
C10_Witness ==
    /\ last.res = "cancelled"
    /\ disc = "done" /\ sess = "done"

\* An engine handled a received frame in the step (it did not leave its loop
\* on the token or on a receive error).
HandledFrame(e) ==
    /\ e.eng \in {"disc", "sess"}
    /\ e.res \notin {"recv_error", "cancelled"}

\* C11: once the token is cancelled no engine handles a further frame, so no
\* reply is sent and no session id is allocated after the signal, even when a
\* frame is ready together with the cancellation.
C11_NoFrameAfterCancel ==
    [][cancelled =>
          /\ ~HandledFrame(last')
          /\ last'.reply = <<>>
          /\ list' \subseteq list]_vars

Max(S) == CHOOSE m \in S : \A x \in S : m >= x

\* The positions of the tags of type t in a tag list.
TagsOf(tags, t) == {i \in DOMAIN tags : tags[i][1] = t}

\* A tag list that carries exactly one Service-Name, valid UTF-8.
OneValidServiceName(tags) ==
    /\ Cardinality(TagsOf(tags, ServiceName)) = 1
    /\ \A i \in TagsOf(tags, ServiceName) :
          tags[i][2] \in TagValues /\ Utf8Table[tags[i][2]]

\* The tags a reply echoes from a request's tags: the Service-Name, then the
\* Host-Uniq when the request carries one.
Echo(tags) ==
    <<<<ServiceName, tags[Max(TagsOf(tags, ServiceName))][2]>>>>
    \o (IF TagsOf(tags, HostUniq) = {} THEN <<>>
        ELSE <<<<HostUniq, tags[Max(TagsOf(tags, HostUniq))][2]>>>>)

\* The frame raw, received with pkttype ty, is a PADI that passes validation.
AcceptedPadi(ty, raw) ==
    /\ ty = Broadcast
    /\ LET d == Deserialize("tags", raw)
       IN  /\ d.ok
           /\ d.v.code = PADI
           /\ d.v.session_id = 0
           /\ OneValidServiceName(d.v.payload)

\* The frame raw, received with pkttype ty, is a PADR that passes validation.
AcceptedPadr(ty, raw) ==
    /\ ty = Unicast
    /\ LET d == Deserialize("tags", raw)
       IN  /\ d.ok
           /\ d.v.code = PADR
           /\ d.v.session_id = 0
           /\ OneValidServiceName(d.v.payload)

\* C12: every accepted PADI is answered by one PADO (the send itself may
\* fail): code 0x07, session id 0, the tags AC-Name, the echoed Service-Name
\* and the echoed Host-Uniq exactly when the PADI carried one; no session is
\* allocated and the engine serves on.
C12_AcceptedPadiGetsPado ==
    [][(last'.eng = "disc" /\ AcceptedPadi(last'.ty, last'.raw))
          => /\ last'.res \in {"pado", "send_failed"}
             /\ last'.res = "pado" =>
                   LET q == Deserialize("tags", last'.raw).v.payload
                       r == Deserialize("tags", last'.reply)
                   IN  /\ r.ok
                       /\ Len(last'.reply) = 6 + FromBe(last'.reply[5], last'.reply[6])
                       /\ r.v.code = PADO
                       /\ r.v.session_id = 0
                       /\ r.v.payload = <<<<AcName, AcNameValue>>>> \o Echo(q)
             /\ last'.id = 0 /\ ~last'.spawned
             /\ list' = list /\ free' = free /\ tasks' = tasks
             /\ disc' = "recv"]_vars

\* C13: every accepted PADR that arrives while the table is not exhausted is
\* answered by a PADS (the send itself may fail): code 0x65, a non-zero
\* session id that was not active before the frame and is allocated by it,
\* the tags the echoed Service-Name and the echoed Host-Uniq when present.
C13_AcceptedPadrGetsPads ==
    [][(/\ last'.eng = "disc"
        /\ AcceptedPadr(last'.ty, last'.raw)
        /\ ~(free = <<>> /\ Cardinality(list) = MaxId))
          => /\ last'.res \in {"pads", "send_failed"}
             /\ last'.res = "pads" =>
                   LET q == Deserialize("tags", last'.raw).v.payload
                       r == Deserialize("tags", last'.reply)
                   IN  /\ r.ok
                       /\ Len(last'.reply) = 6 + FromBe(last'.reply[5], last'.reply[6])
                       /\ r.v.code = PADS
                       /\ r.v.session_id # 0
                       /\ r.v.session_id = last'.id
                       /\ r.v.session_id \notin list
                       /\ r.v.session_id \in list'
                       /\ r.v.payload = Echo(q)]_vars

\* The frame is a PADI or a PADR as the engine dispatches them.
IsPadi(ty, raw) == ty = Broadcast /\ Deserialize("tags", raw).ok /\ raw[2] = PADI
IsPadr(ty, raw) == ty = Unicast /\ Deserialize("tags", raw).ok /\ raw[2] = PADR

\* The step rejected the frame it handled: no reply, no session id allocated,
\* no task spawned, the table as before, the engine still in its loop.
Rejected ==
    /\ last'.reply = <<>>
    /\ last'.id = 0
    /\ ~last'.spawned
    /\ list' = list /\ free' = free /\ tasks' = tasks /\ poisoned' = poisoned
    /\ disc' = "recv"

\* C14: a PADI or PADR whose session id field is not zero is rejected: no
\* reply, no session id allocated, and the engine goes on with the next frame.
C14_NonZeroSessionIdRejected ==
    [][(/\ last'.eng = "disc"
        /\ IsPadi(last'.ty, last'.raw) \/ IsPadr(last'.ty, last'.raw)
        /\ FromBe(last'.raw[3], last'.raw[4]) # 0)
          => Rejected]_vars

\* C14's case: a PADR with a non-zero session id was rejected while sessions
\* were active, and a PADI with a non-zero session id while the pool held ids.
C14_Witness ==
    /\ last.eng = "disc"
    /\ last.res = "session_id"
    /\ \/ IsPadr(last.ty, last.raw) /\ list # {}
       \/ IsPadi(last.ty, last.raw) /\ free # <<>>

\* C15: a PADI or PADR is rejected when it carries two or more Service-Name
\* tags (whatever they hold, wherever the other tags are), none, or one whose
\* bytes are not valid UTF-8.
C15_BadServiceNameRejected ==
    [][(/\ last'.eng = "disc"
        /\ IsPadi(last'.ty, last'.raw) \/ IsPadr(last'.ty, last'.raw)
        /\ ~OneValidServiceName(Deserialize("tags", last'.raw).v.payload))
          => Rejected]_vars

\* C15's case: a frame whose only Service-Name is not UTF-8 was rejected with
\* the session id field zero and ids left to allocate.
C15_Witness ==
    /\ last.eng = "disc"
    /\ last.res = "invalid_service_name"
    /\ IsPadr(last.ty, last.raw)
    /\ list # {} /\ Cardinality(list) < MaxId

\* A well-formed session-stage frame: the header is there, byte 0 is 0x11 and
\* the declared length does not pass the end.
WellFormed(raw) ==
    /\ Len(raw) >= 6
    /\ raw[1] = 17
    /\ FromBe(raw[5], raw[6]) <= Len(raw) - 6

\* C16: the session engine accepts a well-formed unicast frame of code 0x00
\* and ignores every other frame (another code, another packet type, a frame
\* the codec rejects); either way it sends nothing, leaves the table as it is
\* and waits for the next frame.
C16_SessionEngineOnlyListens ==
    [][last'.eng = "sess" /\ HandledFrame(last')
          => /\ last'.res = "accepted" <=>
                   /\ last'.ty = Unicast
                   /\ WellFormed(last'.raw)
                   /\ last'.raw[2] = SessionData
             /\ last'.reply = <<>>
             /\ list' = list /\ free' = free /\ tasks' = tasks
             /\ sess' = "recv"]_vars

\* C16's case: the engine ignored a frame of code 0x01 while a session was
\* active.
C16_Witness ==
    /\ last.eng = "sess"
    /\ last.res = "code"
    /\ list # {}
    /\ sess = "recv"

\* The codec made the call op in the last step.
Called(op) == last.eng = "codec" /\ last.op = op

\* C17: serialize followed by deserialize gives back the value: for every
\* code, session id and tag list whose encoding is at most 1500 bytes the
\* decoding succeeds with the same code, the same session id and the same
\* tags, in the same order with the same values.
C17_RoundTrip ==
    (Called("deserialize") /\ last.from = "serialize")
        => /\ Len(last.data) <= MaxFrame
           /\ last.out.ok
           /\ last.out.v.code = last.x.code
           /\ last.out.v.session_id = last.x.session_id
           /\ last.out.v.payload = last.x.payload

\* C17's case: a value with two tags whose encoding is exactly 1500 bytes,
\* and a session id whose two bytes differ, went through both calls.
C17_Witness ==
    /\ Called("deserialize") /\ last.from = "serialize"
    /\ last.T = "tags"
    /\ Len(last.x.payload) = 2
    /\ Len(last.data) = MaxFrame
    /\ last.x.session_id = 258

\* The length the header of data declares.
DeclaredLength(data) == data[5] * 256 + data[6]

\* C18: deserialize returns none for an input shorter than 6 bytes, for one
\* whose byte 0 is not 0x11 and for one whose declared length is more than the
\* bytes after the header; when it succeeds the payload decoder was given
\* exactly the first `length` bytes after the header.
C18_HeaderChecked ==
    Called("deserialize") =>
        LET data == last.data
            bad == \/ Len(data) < 6
                   \/ data[1] # 17
                   \/ DeclaredLength(data) > Len(data) - 6
        IN  /\ bad => ~last.out.ok
            /\ last.out.ok =>
                  LET given == SubSeq(data, 7, 6 + DeclaredLength(data))
                  IN  /\ last.out.v.code = data[2]
                      /\ last.out.v.session_id = data[3] * 256 + data[4]
                      /\ last.T = "raw" => last.out.v.payload = given
                      /\ last.T = "tags" => TagsSerialize(last.out.v.payload) = Some(given)
            /\ (last.T = "raw" /\ ~bad) => last.out.ok

\* C18's case: received bytes were decoded to the declared length although
\* more bytes follow it.
C18_Witness ==
    /\ Called("deserialize") /\ last.from = "recv"
    /\ last.T = "raw"
    /\ last.out.ok
    /\ Len(last.out.v.payload) > 1
    /\ Len(last.data) > 6 + Len(last.out.v.payload)

\* What is wrong with the tag stream d from its byte pos + 1 on: "dangling"
\* (1 to 3 bytes where a tag header should be), "overrun" (a tag declares
\* more bytes than remain) or "ok".
RECURSIVE Walk(_, _)
Walk(d, pos) ==
    IF pos = Len(d) THEN "ok"
    ELSE IF Len(d) - pos < 4 THEN "dangling"
    ELSE LET L == d[pos + 3] * 256 + d[pos + 4]
         IN  IF L > Len(d) - pos - 4 THEN "overrun"
             ELSE Walk(d, pos + 4 + L)

\* The header of data passes deserialize's checks.
HeaderOk(data) ==
    /\ Len(data) >= 6
    /\ data[1] = 17
    /\ DeclaredLength(data) <= Len(data) - 6

\* C19: the tag decoder rejects the whole frame when a tag declares more
\* bytes than remain or when 1 to 3 bytes remain where a tag header should
\* start; otherwise it returns every tag in wire order and consumes the
\* payload exactly.
C19_TagStreamChecked ==
    (Called("deserialize") /\ last.T = "tags" /\ HeaderOk(last.data)) =>
        LET payload == SubSeq(last.data, 7, 6 + DeclaredLength(last.data))
        IN  /\ Walk(payload, 0) # "ok" => ~last.out.ok
            /\ Walk(payload, 0) = "ok" =>
                  /\ last.out.ok
                  /\ TagsSerialize(last.out.v.payload) = Some(payload)

\* C19's case: received bytes were rejected for the bytes left after a
\* complete tag.
C19_Witness ==
    /\ Called("deserialize") /\ last.from = "recv"
    /\ last.T = "tags"
    /\ HeaderOk(last.data)
    /\ DeclaredLength(last.data) > 4
    /\ Walk(SubSeq(last.data, 7, 6 + DeclaredLength(last.data)), 0) = "dangling"
    /\ ~last.out.ok

\* The number of bytes the payload p of type T encodes to.
RECURSIVE EncodedLen(_, _)
EncodedLen(T, p) ==
    IF T = "raw" THEN Len(p)
    ELSE IF p = <<>> THEN 0
    ELSE 4 + Len(Head(p)[2]) + EncodedLen(T, Tail(p))

\* The tag list tags is what data holds from its byte pos + 1 to its end, tag
\* after tag: type, length and value, nothing between them and nothing after.
RECURSIVE TagsAt(_, _, _)
TagsAt(data, pos, tags) ==
    IF tags = <<>> THEN pos = Len(data)
    ELSE LET t == Head(tags)[1]
             v == Head(tags)[2]
         IN  /\ pos + 4 + Len(v) <= Len(data)
             /\ data[pos + 1] = t \div 256 /\ data[pos + 2] = t % 256
             /\ data[pos + 3] = Len(v) \div 256 /\ data[pos + 4] = Len(v) % 256
             /\ SubSeq(data, pos + 5, pos + 4 + Len(v)) = v
             /\ TagsAt(data, pos + 4 + Len(v), Tail(tags))

\* C20: serialize panics exactly when the encoding would be longer than 1500
\* bytes; otherwise it returns 0x11, the code, the session id big-endian, the
\* length big-endian equal to the number of bytes after the header, and the
\* payload: the tags in the caller's order, none added, dropped or padded.
C20_SerializeLayout ==
    Called("serialize") =>
        LET size == 6 + EncodedLen(last.T, last.x.payload)
            data == last.data
        IN  /\ last.out.ok <=> size <= MaxFrame
            /\ last.out.ok =>
                  /\ Len(data) = size
                  /\ data[1] = 17
                  /\ data[2] = last.x.code
                  /\ data[3] = last.x.session_id \div 256
                  /\ data[4] = last.x.session_id % 256
                  /\ data[5] = (size - 6) \div 256
                  /\ data[6] = (size - 6) % 256
                  /\ last.T = "tags" => TagsAt(data, 6, last.x.payload)
                  /\ last.T = "raw" => SubSeq(data, 7, size) = last.x.payload

\* C20's case: serialize panicked on a value one byte too long.
C20_Witness ==
    /\ Called("serialize")
    /\ ~last.out.ok
    /\ 6 + EncodedLen(last.T, last.x.payload) = MaxFrame + 1

\* Thread t is about to take the guard of mutex m.
Waiting(t, m) ==
    \/ thr[t].pc = "lock1" /\ Order(thr[t].op)[1] = m
    \/ thr[t].pc = "lock2" /\ Order(thr[t].op)[2] = m

\* Thread t waits for a mutex whose guard another call holds.
Blocked(t) == \E m \in {"list", "free"} : Waiting(t, m) /\ mutex[m] # 0

\* C21: concurrent calls of Sessions::spawn and Sessions::free never
\* deadlock: the guard of free is only ever held together with the guard of
\* list (list is taken first and released last), a thread never waits for a
\* mutex whose guard it holds, a thread outside a call holds no guard, and a
\* thread that waits for a mutex waits for a thread that is not itself
\* waiting.
C21_LockOrderNoDeadlock ==
    /\ mutex["free"] # 0 => mutex["list"] = mutex["free"]
    /\ \A t \in Threads :
          /\ thr[t].pc = "lock1" => mutex["list"] # t /\ mutex["free"] # t
          /\ thr[t].pc = "lock2" => mutex["list"] = t /\ mutex["free"] # t
          /\ thr[t].pc \in {"idle", "panicked"} =>
                mutex["list"] # t /\ mutex["free"] # t
          /\ \A m \in {"list", "free"} :
                (Waiting(t, m) /\ mutex[m] # 0) => ~Blocked(mutex[m])

\* C21's case: a thread that drops a Session waits for the guard of list
\* while another thread is inside Sessions::spawn with both guards.
C21_Witness ==
    \E t, u \in Threads :
        /\ thr[t].op = "free" /\ thr[t].pc = "lock1"
        /\ thr[u].op = "spawn" /\ thr[u].pc = "insert"
        /\ mutex["list"] = u /\ mutex["free"] = u

\* The ids of the Sessions thread t owns, or is returning from spawn.
Owned(t) ==
    thr[t].held \cup
        (IF thr[t].op = "spawn" /\ thr[t].pc \in {"unlock2", "unlock1"} /\ thr[t].id # 0
         THEN {thr[t].id} ELSE {})

\* C22: Sessions::spawn chooses its id and inserts it in one critical
\* section: a thread that has chosen an id and not yet inserted it holds both
\* guards and no other thread is at a step that reads or writes the table;
\* no two threads own the same id, and every id a thread owns is active.
C22_AllocationAtomic ==
    \A t \in Threads :
        /\ thr[t].pc = "insert" =>
              /\ mutex["list"] = t /\ mutex["free"] = t
              /\ \A u \in Threads \ {t} :
                    thr[u].pc \notin {"choose", "insert", "push", "remove"}
        /\ \A u \in Threads \ {t} : Owned(t) \cap Owned(u) = {}
        /\ Owned(t) \subseteq list

\* C22's case: a thread has chosen a pooled id and not yet inserted it while
\* another thread, also in Sessions::spawn, waits for the guard of list.
C22_Witness ==
    \E t, u \in Threads :
        /\ thr[t].op = "spawn" /\ thr[t].pc = "insert"
        /\ thr[t].id # Cardinality(list) + 1
        /\ thr[u].op = "spawn" /\ thr[u].pc = "lock1"

\* C23: the discovery engine passes a frame to a handler only when it is a
\* broadcast PADI or a unicast PADR; every other frame (another code for the
\* packet type, a PADI by unicast, a PADR by broadcast, another packet type)
\* is ignored, with no reply and no allocation, and the engine serves on.
C23_DispatchOnTypeAndCode ==
    [][last'.eng = "disc" /\ HandledFrame(last')
          => /\ (~IsPadi(last'.ty, last'.raw) /\ ~IsPadr(last'.ty, last'.raw)) => Rejected
             /\ (last'.reply # <<>> /\ last'.reply[2] = PADO) => IsPadi(last'.ty, last'.raw)
             /\ (last'.reply # <<>> /\ last'.reply[2] = PADS) => IsPadr(last'.ty, last'.raw)
             /\ last'.id # 0 => IsPadr(last'.ty, last'.raw)]_vars

\* C23's case: a PADI that arrived as unicast, and a PADR that arrived as
\* broadcast, was ignored while ids were free to allocate.
C23_Witness ==
    /\ last.eng = "disc"
    /\ \/ last.ty = Unicast /\ last.raw[2] = PADI /\ last.res = "unicast_code"
       \/ last.ty = Broadcast /\ last.raw[2] = PADR /\ last.res = "broadcast_code"
    /\ Cardinality(list) < MaxId
    /\ disc = "recv"

\* C24: handling a PADI, or a PADR that does not pass validation, leaves the
\* table as it is; only a PADR that passes validation changes it, by at most
\* one new active id; and what a PADR that passes validation gets depends on
\* the table alone, not on the frames before it.
C24_DiscoveryStateless ==
    [][last'.eng = "disc" /\ HandledFrame(last')
          => /\ (\/ IsPadi(last'.ty, last'.raw)
                 \/ IsPadr(last'.ty, last'.raw) /\ ~AcceptedPadr(last'.ty, last'.raw))
                   => list' = list /\ free' = free /\ tasks' = tasks
             /\ (list' # list \/ free' # free \/ tasks' # tasks \/ last'.id # 0)
                   => /\ AcceptedPadr(last'.ty, last'.raw)
                      /\ list \subseteq list'
                      /\ Cardinality(list' \ list) <= 1
                      /\ Cardinality(tasks' \ tasks) <= 1
             /\ (/\ AcceptedPadr(last'.ty, last'.raw)
                 /\ ~poisoned
                 /\ Spawn(list, free).res = "some")
                   => /\ last'.res \in {"pads", "send_failed"}
                      /\ last'.id = Spawn(list, free).id]_vars

\* C24's case: a PADR was accepted with no session active and none released
\* before it.
C24_Witness ==
    /\ last.eng = "disc"
    /\ last.res = "pads"
    /\ list = {last.id}
    /\ free = <<>>

\* C25: no PADI and no PADR that passes validation, received in a frame of at
\* most 1500 bytes, makes the engine build a reply that trips the size
\* assertion of EthernetPayload::serialize.
C25_RepliesFit ==
    (/\ last.eng = "disc"
     /\ Len(last.raw) <= MaxFrame
     /\ AcceptedPadi(last.ty, last.raw) \/ AcceptedPadr(last.ty, last.raw))
        => last.res # "serialize_panic"

\* C26: the free pool holds no id twice and no id that is active.
C26_PoolDisjointFromActive ==
    /\ Cardinality(Range(free)) = Len(free)
    /\ Range(free) \cap list = {}

\* C26's case: a release left two ids in the pool while a session is active.
C26_Witness ==
    /\ Len(free) >= 2
    /\ list # {}
    /\ last.eng = "task" /\ last.res = "freed"

\* C27: the active ids and the pooled ids are together exactly 1..n, n the
\* number of active ids plus the number of pooled ids; with an empty pool the
\* active ids are 1..n and the derived id n + 1 is unused.
C27_NoIdLost ==
    /\ list \cup Range(free) = 1..(Cardinality(list) + Len(free))
    /\ free = <<>> => /\ list = 1..Cardinality(list)
                      /\ (Cardinality(list) + 1) \notin list

\* C28: a frame whose declared length is less than the bytes after the
\* header is decoded as the same frame cut to 6 + length bytes: the raw
\* payload is the first `length` bytes, the tag decoder sees only them, and
\* the bytes after them are left out.
C28_TrailingBytesIgnored ==
    (/\ Called("deserialize")
     /\ HeaderOk(last.data)
     /\ DeclaredLength(last.data) < Len(last.data) - 6)
        => LET length == DeclaredLength(last.data)
               cut == SubSeq(last.data, 1, 6 + length)
               given == SubSeq(last.data, 7, 6 + length)
           IN  /\ last.out = Deserialize(last.T, cut)
               /\ last.T = "raw" => last.out.ok /\ last.out.v.payload = given
               /\ last.T = "tags" =>
                     /\ last.out.ok <=> Walk(given, 0) = "ok"
                     /\ last.out.ok => TagsSerialize(last.out.v.payload) = Some(given)

\* C28's case: a frame with one tag and bytes after the declared length that
\* are no tag was decoded to that tag.
C28_Witness ==
    /\ Called("deserialize") /\ last.from = "recv"
    /\ last.T = "tags"
    /\ last.out.ok
    /\ Len(last.out.v.payload) = 1
    /\ Len(last.data) > 6 + DeclaredLength(last.data)
    /\ Walk(SubSeq(last.data, 7, Len(last.data)), 0) # "ok"

====
